---- MODULE Spec2Model ----
(***************************************************************************)
(* Model of src/react_agent/tools.py: the two agent tools get_weather and  *)
(* search_104_jobs.  One behaviour is one invocation of one tool.  Strings *)
(* are sequences of one-character strings; JSON values (and Python None,   *)
(* which json.load produces for null) are tagged records.                  *)
(***************************************************************************)
EXTENDS Integers, Sequences, FiniteSets, TLC

VARIABLES tool, arg, pc, requests, responses, page, cleaned_keyword,
          page_match, latitude, longitude, resolved_name, result

vars == <<tool, arg, pc, requests, responses, page, cleaned_keyword,
          page_match, latitude, longitude, resolved_name, result>>

(***************************************************************************)
(* Bounds of the model.                                                    *)
(***************************************************************************)
\* most filler characters put around a page directive, before and after it
\* together
MaxPad == 3
\* longest raw job list an upstream payload carries
MaxList == 12

(***************************************************************************)
(* Characters and Python string operations.                                *)
(***************************************************************************)
\* str.isspace() / regex \s, restricted to the characters of the model
Whitespace == {" ", "\t"}

\* the argument of .strip(" ,;") at tools.py line 102
StripChars == {" ", ",", ";"}

\* regex \d, restricted to the characters of the model
Digits == {"0", "1", "2", "3"}

DigitVal(c) == CASE c = "0" -> 0 [] c = "1" -> 1 [] c = "2" -> 2 [] c = "3" -> 3

\* re.IGNORECASE folding of the letters the pattern names
Lower(c) ==
  CASE c = "P" -> "p" [] c = "A" -> "a" [] c = "G" -> "g" [] c = "E" -> "e"
    [] OTHER -> c

Min(a, b) == IF a < b THEN a ELSE b

Max(a, b) == IF a > b THEN a ELSE b

\* str.strip(chars): drop the characters of cs from both ends of s
RECURSIVE LStrip(_, _)
LStrip(s, cs) ==
  IF s # <<>> /\ Head(s) \in cs THEN LStrip(Tail(s), cs) ELSE s

RECURSIVE RStrip(_, _)
RStrip(s, cs) ==
  IF s # <<>> /\ s[Len(s)] \in cs THEN RStrip(SubSeq(s, 1, Len(s) - 1), cs) ELSE s

Strip(s, cs) == RStrip(LStrip(s, cs), cs)

\* int(): value of a non-empty digit string
RECURSIVE ParseInt(_)
ParseInt(ds) ==
  IF ds = <<>> THEN 0
  ELSE 10 * ParseInt(SubSeq(ds, 1, Len(ds) - 1)) + DigitVal(ds[Len(ds)])

\* first index >= i of s whose character is outside cs (Len(s)+1 if none):
\* where a greedy  \s*  or  \d+  that starts at i stops
RECURSIVE SkipWhile(_, _, _)
SkipWhile(s, i, cs) ==
  IF i <= Len(s) /\ s[i] \in cs THEN SkipWhile(s, i + 1, cs) ELSE i

\* the pattern  page\s*=\s*(\d+)  tried at index i of s: 0 if it does not
\* match there, else the index one past the end of the match
MatchEnd(s, i) ==
  IF i + 3 > Len(s) THEN 0
  ELSE IF <<Lower(s[i]), Lower(s[i+1]), Lower(s[i+2]), Lower(s[i+3])>>
           # <<"p", "a", "g", "e">> THEN 0
  ELSE LET eq == SkipWhile(s, i + 4, Whitespace) IN
       IF eq > Len(s) \/ s[eq] # "=" THEN 0
       ELSE LET ds == SkipWhile(s, eq + 1, Whitespace)
                de == SkipWhile(s, ds, Digits)
            IN  IF de = ds THEN 0 ELSE de

\* start of group 1 of a match that begins at i
GroupStart(s, i) ==
  SkipWhile(s, SkipWhile(s, i + 4, Whitespace) + 1, Whitespace)

NoMatch == [found |-> FALSE, start |-> 0, end |-> 0, group |-> <<>>]

\* re.search: the leftmost match; start is the index of its first character
\* and end the index one past its last
FirstMatchIndex(s) ==
  CHOOSE i \in 1..Len(s) :
     /\ MatchEnd(s, i) # 0
     /\ \A j \in 1..(i - 1) : MatchEnd(s, j) = 0

ReSearch(s) ==
  IF \A i \in 1..Len(s) : MatchEnd(s, i) = 0 THEN NoMatch
  ELSE LET i == FirstMatchIndex(s) IN
       [found |-> TRUE, start |-> i, end |-> MatchEnd(s, i),
        group |-> SubSeq(s, GroupStart(s, i), MatchEnd(s, i) - 1)]

\* urllib.parse.quote_plus on the characters of the model
QuoteChar(c) ==
  CASE c = " "  -> <<"+">>
    [] c = "\t" -> <<"%", "0", "9">>
    [] c = ","  -> <<"%", "2", "C">>
    [] c = ";"  -> <<"%", "3", "B">>
    [] c = "="  -> <<"%", "3", "D">>
    [] OTHER    -> <<c>>

RECURSIVE QuotePlus(_)
QuotePlus(s) ==
  IF s = <<>> THEN <<>> ELSE QuoteChar(Head(s)) \o QuotePlus(Tail(s))

(***************************************************************************)
(* JSON values as json.load builds them.                                   *)
(***************************************************************************)
JNull == [t |-> "null"]

JBool(b) == [t |-> "bool", v |-> b]

JNum(n) == [t |-> "num", v |-> n]

JStr(s) == [t |-> "str", v |-> s]

JList(l) == [t |-> "list", v |-> l]

JObj(f) == [t |-> "obj", f |-> f]

EmptyObj == JObj([k \in {} |-> JNull])

\* Python truth value of a JSON value
Truthy(x) ==
  CASE x.t = "null" -> FALSE
    [] x.t = "bool" -> x.v
    [] x.t = "num"  -> x.v # 0
    [] x.t = "str"  -> x.v # <<>>
    [] x.t = "list" -> x.v # <<>>
    [] x.t = "obj"  -> DOMAIN x.f # {}

\* only a dict has .get; on any other value the call raises AttributeError
IsObj(x) == x.t = "obj"

HasKey(o, k) == k \in DOMAIN o.f

\* dict.get(k, d)
GetDefault(o, k, d) == IF HasKey(o, k) THEN o.f[k] ELSE d

\* dict.get(k)
Get(o, k) == GetDefault(o, k, JNull)

\* Python  a or b
Or(a, b) == IF Truthy(a) THEN a ELSE b

\* a blank test that forgets to trim
BlankUntrimmed(s) == s = <<>>

\* lines 32 and 88:  not s.strip()
Blank(s) == Strip(s, Whitespace) = <<>>

(***************************************************************************)
(* Results of an invocation.                                               *)
(***************************************************************************)
Unset == [t |-> "unset"]

None == [t |-> "none"]

\* an exception that leaves the coroutine
Raise == [t |-> "raise"]

Ok(m) == [t |-> "ok", v |-> m]


(***************************************************************************)
(* What one blocking fetch can do.  _fetch_json returns the decoded JSON   *)
(* value, or None when urlopen / json.load raise one of the exception      *)
(* classes its except clause names; an exception of any other class is not *)
(* caught and leaves the tool.                                             *)
(***************************************************************************)
Value(x) == [kind |-> "value", value |-> x]

\* an exception the except clause names: _fetch_json returns None
Caught == [kind |-> "caught", value |-> JNull]

\* an exception the except clause does not name (for get_weather e.g. the
\* UnicodeDecodeError, a ValueError, of a body that is not UTF-8; for both
\* tools e.g. http.client.RemoteDisconnected): it propagates
Uncaught == [kind |-> "uncaught", value |-> JNull]

\* the value  await asyncio.to_thread(_fetch_json, ...)  evaluates to
FetchJson(out) == out.value

Missing == [t |-> "missing"]

\* a JSON object from <<key, value>> pairs; a pair whose value is Missing
\* leaves its key out
MkObj(pairs) ==
  LET present == {p \in pairs : p[2].t # "missing"} IN
  JObj([k \in {p[1] : p \in present} |-> (CHOOSE p \in present : p[1] = k)[2]])

(***************************************************************************)
(* search_104_jobs                                                         *)
(***************************************************************************)
\* the slice bound of  job_list[:10]
JobLimit == 10

\* lower bound of  max(int(...), 1)
MinPage == 1

StartsWith(s, prefix) ==
  Len(s) >= Len(prefix) /\ SubSeq(s, 1, Len(prefix)) = prefix

HttpsColon == <<"h", "t", "t", "p", "s", ":">>

\* a rewrite that leaves the protocol-relative URL as it is
JobUrlUnchanged(raw) == raw

\* lines 151-153: the job_url of one listing, from the raw link.job value
JobUrl(raw) ==
  IF Truthy(raw) /\ StartsWith(raw.v, <<"/", "/">>)
  THEN JStr(HttpsColon \o raw.v)
  ELSE raw

\* lines 150-152 raise for this listing: job or link has no .get, or a
\* truthy job_url has no .startswith
JobRaises(job) ==
  IF ~IsObj(job) THEN TRUE
  ELSE LET link == GetDefault(job, "link", EmptyObj) IN
       IF ~IsObj(link) THEN TRUE
       ELSE LET job_url == Get(link, "job") IN
            Truthy(job_url) /\ job_url.t # "str"

\* lines 155-167: the projection of one well-formed listing
JobEntry(job) ==
  [job_name    |-> Get(job, "jobName"),
   company     |-> Get(job, "custName"),
   location    |-> Get(job, "jobAddrNoDesc"),
   salary      |-> Get(job, "salaryDesc"),
   posted_date |-> Get(job, "appearDate"),
   job_url     |-> JobUrl(Get(GetDefault(job, "link", EmptyObj), "job")),
   description |-> Or(Or(Get(job, "descWithoutHighlight"), Get(job, "description")),
                      JStr(<<>>))]

\* a list that is not cut
AllJobs(l) == l

\* job_list[:10]
FirstJobs(l) == SubSeq(l, 1, Min(Len(l), JobLimit))

JobsSource == "https://www.104.com.tw/"

\* a status test that only asks for a status to be there
StatusPresent(payload) == Get(payload, "status").t # "null"

\* line 142:  payload.get("status") == 200
StatusOk(payload) ==
  Get(payload, "status").t = "num" /\ Get(payload, "status").v = 200

\* a page that ignores what the response reports
RequestedPageOnly(query, requested) == JNum(requested)

\* line 171:  query.get("page", page)
ResultPage(query, requested) == GetDefault(query, "page", JNum(requested))

\* lines 142-175: what search_104_jobs does with the fetched payload
JobsResult(payload, cleaned, requested) ==
  IF ~Truthy(payload) THEN None
  ELSE IF ~IsObj(payload) THEN Raise
  ELSE IF ~StatusOk(payload) THEN None
  ELSE LET data == Or(Get(payload, "data"), EmptyObj) IN
       IF ~IsObj(data) THEN Raise
       ELSE LET job_list == Or(Get(data, "list"), JList(<<>>)) IN
            IF job_list.t # "list" THEN Raise
            ELSE LET jobs == FirstJobs(job_list.v) IN
                 IF \E i \in 1..Len(jobs) : JobRaises(jobs[i]) THEN Raise
                 ELSE LET query == GetDefault(data, "query", EmptyObj) IN
                      IF ~IsObj(query) THEN Raise
                      ELSE Ok([keyword     |-> cleaned,
                               page        |-> ResultPage(query, requested),
                               total_count |-> Get(data, "totalCount"),
                               jobs        |-> [i \in 1..Len(jobs) |-> JobEntry(jobs[i])],
                               source      |-> JobsSource])

\* a page that is not clamped
PageUnclamped(m) == ParseInt(m.group)

\* line 97: the page a match asks for
PageOf(m) == Max(ParseInt(m.group), MinPage)

\* a clean-up without the .strip(" ,;") step
CleanKeywordWhitespaceOnly(s, m) ==
  Strip(SubSeq(s, 1, m.start - 1) \o SubSeq(s, m.end, Len(s)), Whitespace)

\* lines 100-104: the keyword with the match cut out, then stripped
CleanKeyword(s, m) ==
  Strip(Strip(SubSeq(s, 1, m.start - 1) \o SubSeq(s, m.end, Len(s)), StripChars),
        Whitespace)

\* lines 110-125: the query parameters that vary, and the keyword as
\* urlencode puts it in the URL
JobsRequest(cleaned, p) ==
  [endpoint |-> "jobs", keyword |-> cleaned, page |-> p,
   url_keyword |-> QuotePlus(cleaned)]

\* lines 88-141: from the call to the dispatch of the fetch
JobsStart ==
  /\ tool = "jobs" /\ pc = "start"
  /\ LET trimmed == Strip(arg, Whitespace)
         m       == ReSearch(trimmed)
         p       == IF m.found THEN PageOf(m) ELSE 1
         cleaned == IF m.found THEN CleanKeyword(trimmed, m) ELSE trimmed
     IN  IF Blank(arg)
         THEN /\ result' = None
              /\ pc' = "done"
              /\ UNCHANGED <<requests, page, cleaned_keyword, page_match>>
         ELSE /\ page' = p
              /\ cleaned_keyword' = cleaned
              /\ page_match' = m
              /\ IF cleaned = <<>>
                 THEN /\ result' = None
                      /\ pc' = "done"
                      /\ UNCHANGED requests
                 ELSE /\ requests' = Append(requests, JobsRequest(cleaned, p))
                      /\ pc' = "await_jobs"
                      /\ UNCHANGED result
  /\ UNCHANGED <<tool, arg, responses, latitude, longitude, resolved_name>>

\* lines 141-175: the fetch completes with outcome out
JobsReturn(out) ==
  /\ tool = "jobs" /\ pc = "await_jobs"
  /\ responses' = Append(responses, out)
  /\ result' = IF out.kind = "uncaught" THEN Raise
               ELSE JobsResult(FetchJson(out), cleaned_keyword, page)
  /\ pc' = "done"
  /\ UNCHANGED <<tool, arg, requests, page, cleaned_keyword, page_match,
                 latitude, longitude, resolved_name>>

(***************************************************************************)
(* get_weather                                                             *)
(***************************************************************************)
CommaSpace == <<",", " ">>

\* str.join
RECURSIVE Join(_, _)
Join(sep, parts) ==
  IF parts = <<>> THEN <<>>
  ELSE IF Len(parts) = 1 THEN parts[1]
  ELSE parts[1] \o sep \o Join(sep, Tail(parts))

\* lines 51-53: the truthy ones among name, admin1, country, in that order
NameParts(match) ==
  SelectSeq(<<Get(match, "name"), Get(match, "admin1"), Get(match, "country")>>,
            Truthy)

RECURSIVE Texts(_)
Texts(parts) ==
  IF parts = <<>> THEN <<>> ELSE <<Head(parts).v>> \o Texts(Tail(parts))

\* line 54; ", ".join raises TypeError on a part that is not a str
JoinRaises(match) ==
  \E i \in 1..Len(NameParts(match)) : NameParts(match)[i].t # "str"

ResolvedName(match, trimmed) ==
  IF NameParts(match) # <<>> THEN Join(CommaSpace, Texts(NameParts(match)))
  ELSE trimmed

\* lines 35-39: the geocoding request
GeocodeRequest(trimmed) == [endpoint |-> "geocode", name |-> QuotePlus(trimmed)]

\* lines 56-64: the forecast request
ForecastRequest(lat, lon) ==
  [endpoint |-> "forecast", latitude |-> lat, longitude |-> lon]

\* geocode["results"][0] raises: results is truthy here; only a list and a
\* str can be indexed by 0 (a dict of JSON has no key 0)
FirstRaises(results) == results.t \notin {"list", "str"}

First(results) ==
  IF results.t = "list" THEN results.v[1] ELSE JStr(<<results.v[1]>>)

IsInfix(w, s) ==
  \E i \in 1..(Len(s) - Len(w) + 1) : SubSeq(s, i, i + Len(w) - 1) = w

CurrentKey == <<"c", "u", "r", "r", "e", "n", "t">>

\* "current" not in forecast  raises TypeError: forecast is truthy here, and
\* a number or a bool is no container
InRaises(forecast) == forecast.t \in {"num", "bool"}

\* "current" in forecast
HasCurrent(forecast) ==
  CASE forecast.t = "obj"  -> HasKey(forecast, "current")
    [] forecast.t = "list" ->
         \E i \in 1..Len(forecast.v) :
            forecast.v[i].t = "str" /\ forecast.v[i].v = CurrentKey
    [] forecast.t = "str"  -> IsInfix(CurrentKey, forecast.v)

WeatherSource == "https://open-meteo.com/"

\* lines 67-79: what get_weather does with the fetched forecast
WeatherResult(forecast, name, lat, lon) ==
  IF ~Truthy(forecast) THEN None
  ELSE IF InRaises(forecast) THEN Raise
  ELSE IF ~HasCurrent(forecast) THEN None
  ELSE IF ~IsObj(forecast) THEN Raise
  ELSE Ok([resolved_location |-> name,
           latitude          |-> lat,
           longitude         |-> lon,
           current           |-> Get(forecast, "current"),
           current_units     |-> Get(forecast, "current_units"),
           daily             |-> Get(forecast, "daily"),
           daily_units       |-> Get(forecast, "daily_units"),
           source            |-> WeatherSource])

\* lines 42-54 on the fetched geocode: "none" (return None), "raise", or
\* "go" (carry on to the forecast request)
GeocodeVerdict(geocode) ==
  IF ~Truthy(geocode) THEN "none"
  ELSE IF ~IsObj(geocode) THEN "raise"
  ELSE IF ~Truthy(Get(geocode, "results")) THEN "none"
  ELSE IF FirstRaises(Get(geocode, "results")) THEN "raise"
  ELSE LET match == First(Get(geocode, "results")) IN
       IF ~IsObj(match) THEN "raise"
       ELSE IF Get(match, "latitude").t = "null" \/ Get(match, "longitude").t = "null"
            THEN "none"
       ELSE IF JoinRaises(match) THEN "raise"
       ELSE "go"

\* lines 32-41: from the call to the dispatch of the geocoding fetch
WeatherStart ==
  /\ tool = "weather" /\ pc = "start"
  /\ LET trimmed == Strip(arg, Whitespace) IN
     IF Blank(arg)
     THEN /\ result' = None
          /\ pc' = "done"
          /\ UNCHANGED requests
     ELSE /\ requests' = Append(requests, GeocodeRequest(trimmed))
          /\ pc' = "await_geocode"
          /\ UNCHANGED result
  /\ UNCHANGED <<tool, arg, responses, page, cleaned_keyword, page_match,
                 latitude, longitude, resolved_name>>

\* lines 41-66: the geocoding fetch completes with outcome out
GeocodeReturn(out) ==
  /\ tool = "weather" /\ pc = "await_geocode"
  /\ responses' = Append(responses, out)
  /\ LET geocode == FetchJson(out)
         verdict == IF out.kind = "uncaught" THEN "raise" ELSE GeocodeVerdict(geocode)
     IN  IF verdict = "go"
         THEN LET match == First(Get(geocode, "results")) IN
              /\ latitude' = Get(match, "latitude")
              /\ longitude' = Get(match, "longitude")
              /\ resolved_name' = ResolvedName(match, Strip(arg, Whitespace))
              /\ requests' = Append(requests,
                    ForecastRequest(Get(match, "latitude"), Get(match, "longitude")))
              /\ pc' = "await_forecast"
              /\ UNCHANGED result
         ELSE /\ result' = IF verdict = "raise" THEN Raise ELSE None
              /\ pc' = "done"
              /\ UNCHANGED <<requests, latitude, longitude, resolved_name>>
  /\ UNCHANGED <<tool, arg, page, cleaned_keyword, page_match>>

\* lines 66-79: the forecast fetch completes with outcome out
ForecastReturn(out) ==
  /\ tool = "weather" /\ pc = "await_forecast"
  /\ responses' = Append(responses, out)
  /\ result' = IF out.kind = "uncaught" THEN Raise
               ELSE WeatherResult(FetchJson(out), resolved_name, latitude, longitude)
  /\ pc' = "done"
  /\ UNCHANGED <<tool, arg, requests, page, cleaned_keyword, page_match,
                 latitude, longitude, resolved_name>>

(***************************************************************************)
(* The inputs of the model: arguments of the tools and what the upstream   *)
(* servers answer.                                                         *)
(***************************************************************************)
Txt(c) == JStr(<<c>>)

\* raw link values of a listing, and the description fields it carries
LinkVariants ==
  << MkObj({<<"job", JStr(<<"/", "/", "w">>)>>}),
     MkObj({<<"job", JStr(<<"/", "w">>)>>}),
     MkObj({<<"job", JStr(HttpsColon \o <<"/", "/", "w">>)>>}),
     MkObj({<<"job", JStr(<<>>)>>}),
     Missing,
     EmptyObj,
     MkObj({<<"job", JNull>>}),
     MkObj({<<"job", JStr(<<"/", "/">>)>>}) >>

DescVariants ==
  << <<Txt("d"), Txt("e")>>, <<JStr(<<>>), Txt("e")>>,
     <<Missing, Txt("e")>>, <<Missing, Missing>> >>

\* the i-th well-formed listing of a list; its jobName tells its position
RawJob(i, shift) ==
  LET k == (i + shift) % Len(LinkVariants)
      d == DescVariants[(k % Len(DescVariants)) + 1]
  IN  MkObj({<<"jobName", JStr([j \in 1..i |-> "n"])>>,
             <<"custName", Txt("c")>>,
             <<"link", LinkVariants[k + 1]>>,
             <<"descWithoutHighlight", d[1]>>,
             <<"description", d[2]>>})

GoodLists ==
  {JList([i \in 1..n |-> RawJob(i, shift)]) :
      n \in 1..MaxList, shift \in 0..(Len(LinkVariants) - 1)}

\* listings on which lines 150-152 raise
BadJobs ==
  << JNum(1), JNull,
     MkObj({<<"link", JNull>>}),
     MkObj({<<"link", Txt("x")>>}),
     MkObj({<<"link", MkObj({<<"job", JNum(5)>>})>>}),
     MkObj({<<"link", MkObj({<<"job", JList(<<Txt("x")>>)>>})>>}) >>

\* a full-length list with one such listing first, last inside the slice,
\* or first outside it
BadLists ==
  {JList([i \in 1..MaxList |-> IF i = pos THEN BadJobs[b] ELSE RawJob(i, 0)]) :
      b \in 1..Len(BadJobs),
      pos \in {q \in {1, JobLimit, JobLimit + 1} : q <= MaxList}}

ListValues ==
  {Missing, JNull, JList(<<>>), JStr(<<"a", "b">>), JNum(5), EmptyObj,
   MkObj({<<"a", JNum(1)>>})} \cup GoodLists \cup BadLists

QueryValues ==
  {Missing, JNull, EmptyObj, MkObj({<<"page", JNum(7)>>}),
   MkObj({<<"page", JNull>>}), MkObj({<<"size", JNum(20)>>}),
   JNum(3), JList(<<>>)}

TotalValues == {Missing, JNum(123)}

DataValues ==
  {Missing, JNull, JNum(5), JList(<<>>), JList(<<JNum(1)>>), EmptyObj}
  \cup {MkObj({<<"list", l>>, <<"query", q>>, <<"totalCount", n>>}) :
           l \in ListValues, q \in QueryValues, n \in TotalValues}

StatusValues ==
  {Missing, JNull, JNum(404), JNum(0), JStr(<<"2", "0", "0">>), JBool(TRUE)}

JobPayloads ==
  {JNull, EmptyObj, JList(<<>>), JList(<<JNum(1)>>), JNum(5), JNum(0),
   Txt("a"), JStr(<<>>), JBool(TRUE), JBool(FALSE)}
  \cup {MkObj({<<"status", JNum(200)>>, <<"data", d>>}) : d \in DataValues}
  \cup {MkObj({<<"status", st>>,
               <<"data", MkObj({<<"list", JList(<<RawJob(1, 0)>>)>>})>>}) :
           st \in StatusValues}

JobOutcomes == {Caught, Uncaught} \cup {Value(x) : x \in JobPayloads}

PageEq == <<"p", "a", "g", "e", "=">>

\* keywords given to search_104_jobs in Spec
JobArgs ==
  { <<>>, <<" ">>, <<"\t", " ">>,
    <<"x">>,
    <<" ", "x", " ">> \o PageEq \o <<"2">>,
    PageEq \o <<"3">>,
    <<"x", ",">> \o PageEq \o <<"0", ";">>,
    <<"x", " ">> \o PageEq \o <<"x">> }

\* characters put around a page directive
PadChars == {"x", " ", ",", ";", "\t"}

Pads == UNION {[1..n -> PadChars] : n \in 0..MaxPad}

\* the ways to split a run of filler in what goes before the directive and
\* what goes after it
PadSplits ==
  UNION {{<<SubSeq(s, 1, k), SubSeq(s, k + 1, Len(s))>> : k \in 0..Len(s)} :
            s \in Pads}

\* none; page=2; PaGe =<tab>0; page=12; page=x (malformed); two directives;
\* a malformed directive followed by a well-formed one
Directives ==
  { <<>>,
    PageEq \o <<"2">>,
    <<"P", "a", "G", "E", " ", "=", "\t", "0">>,
    PageEq \o <<"1", "2">>,
    PageEq \o <<"x">>,
    PageEq \o <<"2", " ">> \o PageEq \o <<"3">>,
    PageEq \o <<"x", " ">> \o PageEq \o <<"3">> }

\* keywords given to search_104_jobs in SpecKeyword
Keywords == {ab[1] \o d \o ab[2] : ab \in PadSplits, d \in Directives}

\* what the job endpoint answers in SpecKeyword
KeywordOutcomes ==
  {Caught,
   Value(MkObj({<<"status", JNum(200)>>})),
   Value(MkObj({<<"status", JNum(200)>>,
                <<"data", MkObj({<<"query", MkObj({<<"page", JNum(7)>>})>>})>>}))}

\* locations given to get_weather
WeatherArgs ==
  { <<>>, <<" ">>, <<" ", "\t">>, <<"T">>, <<" ", "T", ",", "x", "\t">> }

LatValues == {Missing, JNull, JNum(0), JNum(25), Txt("n")}

LonValues == {Missing, JNull, JNum(0), JNum(121)}

NameValues == {Missing, JStr(<<>>), Txt("T"), JNum(7)}

Admin1Values == {Missing, JStr(<<>>), Txt("A")}

CountryValues == {Missing, JNull, Txt("C"), JList(<<Txt("C")>>)}

Matches ==
  {JNum(5), JNull, Txt("m"), EmptyObj}
  \cup {MkObj({<<"latitude", la>>, <<"longitude", lo>>, <<"name", nm>>,
               <<"admin1", ad>>, <<"country", co>>}) :
           la \in LatValues, lo \in LonValues, nm \in NameValues,
           ad \in Admin1Values, co \in CountryValues}

GeocodePayloads ==
  {JNull, EmptyObj, JList(<<>>), JList(<<JNum(1)>>), JNum(5), Txt("a"), JBool(TRUE)}
  \cup {MkObj({<<"results", r>>}) :
           r \in {JNull, JList(<<>>), JNum(0), JNum(5), Txt("r"),
                  MkObj({<<"a", JNum(1)>>})}}
  \cup {MkObj({<<"results", JList(<<m>>)>>}) : m \in Matches}
  \cup {MkObj({<<"results", JList(<<m, JNum(5)>>)>>, <<"generationtime_ms", JNum(1)>>}) :
           m \in {MkObj({<<"latitude", JNum(25)>>, <<"longitude", JNum(121)>>})}}

GeocodeOutcomes == {Caught, Uncaught} \cup {Value(x) : x \in GeocodePayloads}

ForecastPayloads ==
  {JNull, EmptyObj, JList(<<>>), JNum(0), JNum(5), JBool(TRUE), JBool(FALSE),
   JStr(<<>>), Txt("x"), JStr(CurrentKey), JList(<<JNum(1)>>),
   JList(<<JStr(CurrentKey)>>)}
  \cup {MkObj({<<"current", c>>, <<"current_units", u>>, <<"daily", d>>,
               <<"daily_units", u>>}) :
           c \in {Missing, JNull, MkObj({<<"temperature_2m", JNum(21)>>})},
           u \in {Missing, MkObj({<<"temperature_2m", Txt("C")>>})},
           d \in {Missing, MkObj({<<"temperature_2m_max", JList(<<JNum(25)>>)>>})}}

ForecastOutcomes == {Caught, Uncaught} \cup {Value(x) : x \in ForecastPayloads}

(***************************************************************************)
(* Specifications.                                                         *)
(***************************************************************************)
InitLocals ==
  /\ pc = "start"
  /\ requests = <<>>
  /\ responses = <<>>
  /\ page = Unset
  /\ cleaned_keyword = Unset
  /\ page_match = Unset
  /\ latitude = Unset
  /\ longitude = Unset
  /\ resolved_name = Unset
  /\ result = Unset

\* one invocation of either tool
Init ==
  /\ \/ tool = "weather" /\ arg \in WeatherArgs
     \/ tool = "jobs" /\ arg \in JobArgs
  /\ InitLocals

Next ==
  \/ WeatherStart
  \/ \E out \in GeocodeOutcomes : GeocodeReturn(out)
  \/ \E out \in ForecastOutcomes : ForecastReturn(out)
  \/ JobsStart
  \/ \E out \in JobOutcomes : JobsReturn(out)

Spec == Init /\ [][Next]_vars

\* one invocation of search_104_jobs on every keyword built around a page
\* directive
InitKeyword ==
  /\ tool = "jobs"
  /\ arg \in Keywords
  /\ InitLocals

NextKeyword ==
  \/ JobsStart
  \/ \E out \in KeywordOutcomes : JobsReturn(out)

SpecKeyword == InitKeyword /\ [][NextKeyword]_vars

(***************************************************************************)
(* Vocabulary of the properties.                                           *)
(***************************************************************************)
AllWhitespace(s) == \A i \in 1..Len(s) : s[i] \in Whitespace

\* s without the characters of cs at its two ends
Core(s, cs) ==
  LET keep == {k \in 1..Len(s) : s[k] \notin cs} IN
  IF keep = {} THEN <<>>
  ELSE SubSeq(s, CHOOSE k \in keep : \A j \in keep : k <= j,
                 CHOOSE k \in keep : \A j \in keep : j <= k)

Separators == Whitespace \cup {",", ";"}

\* a page=<digits> token of s starts at i
IsTokenAt(s, i) ==
  /\ i + 3 <= Len(s)
  /\ Lower(s[i]) = "p" /\ Lower(s[i+1]) = "a"
  /\ Lower(s[i+2]) = "g" /\ Lower(s[i+3]) = "e"
  /\ \E e \in (i + 4)..Len(s) :
       /\ s[e] = "="
       /\ \A k \in (i + 4)..(e - 1) : s[k] \in Whitespace
       /\ \E d \in (e + 1)..Len(s) :
            /\ s[d] \in Digits
            /\ \A k \in (e + 1)..(d - 1) : s[k] \in Whitespace

Tokens(s) == {i \in 1..Len(s) : IsTokenAt(s, i)}

\* the digit string of the token that starts at i
TokenDigits(s, i) ==
  LET d == CHOOSE d \in (i + 4)..Len(s) :
              s[d] \in Digits /\ \A k \in (i + 4)..(d - 1) : s[k] \notin Digits
      z == CHOOSE z \in d..Len(s) :
              /\ \A k \in d..z : s[k] \in Digits
              /\ z = Len(s) \/ s[z + 1] \notin Digits
  IN  SubSeq(s, d, z)

FirstToken(s) == CHOOSE i \in Tokens(s) : \A j \in Tokens(s) : i <= j

\* the job payload as the server sent it, and its raw listings
SentPayload == responses[1].value

Is200(p) == HasKey(p, "status") /\ p.f.status.t = "num" /\ p.f.status.v = 200

SentData ==
  IF HasKey(SentPayload, "data") /\ SentPayload.f.data.t = "obj"
  THEN SentPayload.f.data ELSE EmptyObj

RawListings ==
  IF HasKey(SentData, "list") /\ SentData.f.list.t = "list"
  THEN SentData.f.list.v ELSE <<>>

\* the raw link.job of a listing, JNull when the listing has none
RawUrl(job) ==
  IF HasKey(job, "link") /\ HasKey(job.f.link, "job") THEN job.f.link.f.job ELSE JNull

ProtocolRelative(u) ==
  u.t = "str" /\ Len(u.v) >= 2 /\ u.v[1] = "/" /\ u.v[2] = "/"

Returned == pc = "done" /\ result.t = "ok"

Endpoints(e) == {i \in 1..Len(requests) : requests[i].endpoint = e}

\* the geocoding answer names a place: non-empty results whose first match
\* has a latitude and a longitude
GeocodeLocated(x) ==
  /\ x.t = "obj" /\ HasKey(x, "results")
  /\ x.f.results.t = "list" /\ x.f.results.v # <<>>
  /\ x.f.results.v[1].t = "obj"
  /\ HasKey(x.f.results.v[1], "latitude")
  /\ x.f.results.v[1].f.latitude.t # "null"
  /\ HasKey(x.f.results.v[1], "longitude")
  /\ x.f.results.v[1].f.longitude.t # "null"

(***************************************************************************)
(* Properties.                                                             *)
(***************************************************************************)
\* C1: on an argument that is empty or all whitespace both tools return
\* None, and no request is issued before they return.
C1_BlankInputReturnsNoneWithoutRequest ==
  AllWhitespace(arg) =>
     /\ requests = <<>>
     /\ responses = <<>>
     /\ pc # "start" => (pc = "done" /\ result.t = "none")

C1_Witness ==
  /\ AllWhitespace(arg) /\ Len(arg) = 2
  /\ pc = "done" /\ result.t = "none"

\* C2: whatever JSON values the servers answer, an invocation ends by
\* returning a result mapping or None; it never raises.
C2_NeverRaises ==
  (pc = "done" /\ \A i \in 1..Len(responses) : responses[i].kind = "value")
     => result.t \in {"ok", "none"}

\* C3 as stated: the cleaned keyword is the trimmed keyword without the
\* first token and without the commas, semicolons and whitespace around
\* that token, wherever the token sits.
C3_TokenAndSurroundingSeparatorsRemoved ==
  (tool = "jobs" /\ requests # <<>> /\ page_match.found) =>
     LET t == Core(arg, Whitespace)
         expected == RStrip(SubSeq(t, 1, page_match.start - 1), Separators)
                     \o LStrip(SubSeq(t, page_match.end, Len(t)), Separators)
     IN  /\ requests[1].keyword = expected
         /\ Returned => result.v.keyword = expected

\* C3 amended: the cleaned keyword is the trimmed keyword with the first
\* token cut out, then spaces, commas and semicolons dropped from the two
\* ends of what is left, then whitespace dropped from the two ends;
\* separators inside what is left stay.
C3_TokenRemovedThenEndsStripped ==
  (tool = "jobs" /\ requests # <<>> /\ page_match.found) =>
     LET t == Core(arg, Whitespace)
         rest == SubSeq(t, 1, page_match.start - 1) \o SubSeq(t, page_match.end, Len(t))
         expected == Core(Core(rest, StripChars), Whitespace)
     IN  /\ requests[1].keyword = expected
         /\ Returned => result.v.keyword = expected

\* a token in the middle, the comma before it kept:  x,page=2x
C3_Witness ==
  /\ tool = "jobs" /\ Returned
  /\ page_match.found /\ page_match.start = 3
  /\ result.v.keyword = <<"x", ",", "x">>

\* C4: the page sent to the job endpoint is an integer >= 1: max(n, 1) for
\* the digit string n of the first page=<digits> token of the trimmed
\* keyword, 1 when there is no token; a later token is left in the keyword.
C4_RequestedPage ==
  (tool = "jobs" /\ requests # <<>>) =>
     LET t == Core(arg, Whitespace) IN
     /\ requests[1].page \in Int
     /\ requests[1].page >= 1
     /\ requests[1].page =
           IF Tokens(t) = {} THEN 1
           ELSE Max(ParseInt(TokenDigits(t, FirstToken(t))), 1)
     /\ Cardinality(Tokens(t)) >= 2 => Tokens(requests[1].keyword) # {}

\* two tokens, the first decides:  x page=2 page=3
C4_Witness ==
  /\ tool = "jobs" /\ requests # <<>>
  /\ Cardinality(Tokens(arg)) = 2
  /\ requests[1].page = 2
  /\ Tokens(requests[1].keyword) # {}

\* C5: search_104_jobs returns None when the payload is absent (the fetch
\* yielded None), empty, or an object whose status is not 200; it returns
\* a mapping only when the payload's status is 200.
C5_StatusNot200YieldsNone ==
  (tool = "jobs" /\ pc = "done" /\ responses # <<>>) =>
     LET o == responses[1] IN
     /\ (\/ o.kind = "caught"
         \/ o.kind = "value" /\ ~Truthy(o.value)
         \/ o.kind = "value" /\ o.value.t = "obj" /\ ~Is200(o.value))
        => result.t = "none"
     /\ result.t = "ok"
        => (o.kind = "value" /\ o.value.t = "obj" /\ Is200(o.value))

C5_Witness ==
  /\ tool = "jobs" /\ pc = "done" /\ responses # <<>>
  /\ responses[1].kind = "value" /\ responses[1].value.t = "obj"
  /\ HasKey(responses[1].value, "status")
  /\ responses[1].value.f.status = JNum(404)
  /\ RawListings # <<>>
  /\ result.t = "none"

\* C6: the returned jobs are the first min(N, 10) of the N raw listings,
\* in their order; no list, no jobs.
C6_FirstTenInOrder ==
  (tool = "jobs" /\ Returned) =>
     /\ Len(result.v.jobs) = Min(Len(RawListings), 10)
     /\ \A i \in 1..Len(result.v.jobs) :
           /\ result.v.jobs[i].job_name = RawListings[i].f.jobName
           /\ result.v.jobs[i].company = RawListings[i].f.custName

C6_Witness ==
  /\ tool = "jobs" /\ Returned
  /\ Len(RawListings) > 10
  /\ Len(result.v.jobs) = 10

\* C7: the returned page is data.query.page when the response carries it,
\* else the page that was requested.
C7_ReturnedPage ==
  (tool = "jobs" /\ Returned) =>
     result.v.page =
        IF /\ HasKey(SentData, "query")
           /\ SentData.f.query.t = "obj"
           /\ HasKey(SentData.f.query, "page")
        THEN SentData.f.query.f.page
        ELSE JNum(requests[1].page)

C7_Witness ==
  /\ tool = "jobs" /\ Returned
  /\ requests[1].page = 2
  /\ result.v.page = JNum(7)

\* C8: a raw link.job that begins with // is returned with https: put in
\* front, any other is returned as it is; no returned job_url begins
\* with //.
C8_ProtocolRelativeRewritten ==
  (tool = "jobs" /\ Returned) =>
     \A i \in 1..Len(result.v.jobs) :
        LET raw == RawUrl(RawListings[i])
            url == result.v.jobs[i].job_url
        IN  /\ ProtocolRelative(raw) => url = JStr(HttpsColon \o raw.v)
            /\ ~ProtocolRelative(raw) => url = raw
            /\ ~ProtocolRelative(url)

C8_Witness ==
  /\ tool = "jobs" /\ Returned
  /\ \E i \in 1..Len(result.v.jobs) :
        /\ RawUrl(RawListings[i]) = JStr(<<"/", "/", "w">>)
        /\ result.v.jobs[i].job_url
              = JStr(<<"h", "t", "t", "p", "s", ":", "/", "/", "w">>)

\* C9: get_weather returns a mapping only when the geocoding answer names
\* a place and the forecast answer is a payload with a current key; when
\* the geocoding answer names a place and the forecast call fails or its
\* JSON has no current key, the result is None.
C9_ForecastFailureYieldsNone ==
  (tool = "weather" /\ pc = "done") =>
     /\ result.t = "ok" =>
           /\ Len(responses) = 2
           /\ responses[1].kind = "value" /\ GeocodeLocated(responses[1].value)
           /\ responses[2].kind = "value"
           /\ responses[2].value.t = "obj" /\ HasKey(responses[2].value, "current")
     /\ (/\ Len(responses) = 2
         /\ \/ responses[2].kind = "caught"
            \/ /\ responses[2].kind = "value"
               /\ ~(responses[2].value.t = "obj" /\ HasKey(responses[2].value, "current")))
        => result.t = "none"

\* the part of C9 the code keeps: a mapping is returned only when both
\* answers are there, so never one built from the geocoding answer alone
WeatherResultNeedsBoth ==
  (tool = "weather" /\ result.t = "ok") =>
     /\ Len(responses) = 2
     /\ responses[1].kind = "value" /\ GeocodeLocated(responses[1].value)
     /\ responses[2].kind = "value"
     /\ responses[2].value.t = "obj" /\ HasKey(responses[2].value, "current")

\* the part of C10 the code keeps: at most one request per endpoint, the
\* job request only with a non-empty keyword, the forecast request only
\* after a geocoding answer that names a place, and no request after a
\* fetch that failed
RequestsOrdered ==
  /\ \A e \in {"jobs", "geocode", "forecast"} : Cardinality(Endpoints(e)) <= 1
  /\ Len(responses) <= Len(requests)
  /\ Len(requests) <= Len(responses) + 1
  /\ \A i \in Endpoints("jobs") : requests[i].keyword # <<>>
  /\ \A i \in Endpoints("forecast") :
        /\ i = 2 /\ requests[1].endpoint = "geocode"
        /\ Len(responses) >= 1
        /\ responses[1].kind = "value" /\ GeocodeLocated(responses[1].value)
  /\ (\E i \in 1..Len(responses) : responses[i].kind # "value")
        => (pc = "done" /\ Len(requests) = Len(responses))

\* C10: no request is repeated, requests are ordered as above, and after a
\* request that failed the invocation returns None without another
\* request.
C10_FailedRequestReturnsNone ==
  /\ RequestsOrdered
  /\ (\E i \in 1..Len(responses) : responses[i].kind # "value")
        => (pc = "done" /\ result.t = "none")

====
